---- MODULE Spec2Model ----
(***************************************************************************)
(* LeanRooster (the Editable Surface) of roosterjs-react as a state        *)
(* machine.  Every handler of the component is one atomic action (handlers *)
(* run to completion); the steps a handler performs, in the order of the   *)
(* code, are recorded in `trace`, and the value returned by the mode       *)
(* switch it made in `ret`.  RoosterCommandBar (the Command Bar) is        *)
(* modelled the same way, with `barOp` and `barTrace`; it reaches the      *)
(* engine only through the plugin, which the engine initializes when it is *)
(* constructed and disposes when it is disposed.                           *)
(***************************************************************************)
EXTENDS Integers, Sequences, FiniteSets, TLC

\* Longest markup string the environment produces.
MaxLen == 2

\* Markup strings: a string is the sequence of its characters.
MarkupOfLen(n) == [i \in 1..n |-> "x"]
Markup == {MarkupOfLen(n) : n \in 0..MaxLen}

\* JavaScript null / undefined, distinct from every markup string.
Null == <<"null">>
Undefined == <<"undefined">>

\* EditorViewState: { content, isDirty }; content may be null.
ViewStates == [content : Markup \cup {Null}, isDirty : BOOLEAN]

\* LeanRoosterModes
View == "View"
Edit == "Edit"

\* this._editor === null/undefined; engine instances are numbered from 1.
NoEditor == 0

VARIABLES
    props,          \* readonly, activateRoosterOnMount, updateViewState (given or
                    \* not), plugin (props.plugins holds the Command Bar's plugin)
    phase,          \* "constructed", "mounted", "unmounted"
    mode,           \* this._mode
    editor,         \* this._editor: NoEditor or the held engine instance
    editorContent,  \* what this._editor.getContent() returns
    hasFocus,       \* what this._editor.hasFocus() returns
    nConstructed,   \* engine instances constructed so far
    nDisposed,      \* engine instances disposed so far
    undoSnapshots,  \* snapshots held by this._editorOptions.undo
    viewState,      \* props.viewState, the object owned by the parent
    initialContent, \* this._initialContent: Undefined or the __html string
    op,             \* the handler that ran last
    ret,            \* what the mode switch attempted by it returned
    trace,          \* the steps it performed, in order
    threw,          \* it ended in an error thrown by the engine's constructor
    plugin,         \* what roosterCommandBarPlugin.getEditor() returns
    barProps,       \* RoosterCommandBarProps: imageManager, visibleButtonKeys
    barPhase,       \* "none", "constructed", "mounted", "unmounted"
    formatState,    \* this.state.formatState
    buttonKeys,     \* this._buttonKeys
    items,          \* the keys of the items last rendered
    asyncLive,      \* this._async is set and not disposed
    timer,          \* ticks until the debounce timeout is due, or NoTimer
    sinceCall,      \* ticks since the debounced function was last called
    fileValue,      \* this._fileInput.value is not empty
    polled,         \* what getFormatState returned to the last handler
    misuse,         \* the last handler used an absent or disposed engine
    outstanding,    \* a refresh was requested and has not run yet
    reqParity,      \* flips with every refresh request
    barOp,          \* the Command Bar handler that ran last
    barTrace        \* the steps it performed, in order

surfaceVars == <<props, phase, mode, editor, editorContent, hasFocus,
                 nConstructed, nDisposed, undoSnapshots, viewState,
                 initialContent, op, ret, trace, threw>>

barVars == <<barProps, barPhase, formatState, buttonKeys, items, asyncLive,
             timer, sinceCall, fileValue, polled, misuse, outstanding,
             reqParity, barOp, barTrace>>

vars == <<surfaceVars, plugin, barVars>>

\* FormatState: a flat mapping of optional fields; a key may hold true, false
\* or undefined, or be absent from the object.  getFormatState may return null.
FormatKeys == {"bold", "link"}
FormatStates == [FormatKeys -> {"true", "false", "undefined", "absent"}]
NullState == [k \in FormatKeys |-> "null"]

\* The component's fields and the objects it acts on, as one record that the
\* sequential code of a handler threads through its statements.
Cur == [mode |-> mode, editor |-> editor, editorContent |-> editorContent,
        hasFocus |-> hasFocus, nConstructed |-> nConstructed,
        nDisposed |-> nDisposed, undoSnapshots |-> undoSnapshots,
        viewState |-> viewState, initialContent |-> initialContent,
        plugin |-> plugin, ret |-> "none", trace |-> <<>>, threw |-> FALSE]

Commit(s, name) ==
    /\ mode' = s.mode
    /\ editor' = s.editor
    /\ editorContent' = s.editorContent
    /\ hasFocus' = s.hasFocus
    /\ nConstructed' = s.nConstructed
    /\ nDisposed' = s.nDisposed
    /\ undoSnapshots' = s.undoSnapshots
    /\ viewState' = s.viewState
    /\ initialContent' = s.initialContent
    /\ ret' = s.ret
    /\ trace' = s.trace
    /\ threw' = s.threw
    /\ op' = name
    /\ plugin' = s.plugin
    /\ barOp' = "none"
    /\ barTrace' = <<>>
    /\ polled' = NullState
    /\ misuse' = FALSE
    /\ UNCHANGED <<props, barProps, barPhase, formatState, buttonKeys, items,
                   asyncLive, timer, sinceCall, fileValue, outstanding, reqParity>>

Step(s, what) == [s EXCEPT !.trace = Append(@, what)]

\* The names of the callback invocations recorded in a trace.
BeforeCall(m, veto) ==
    IF m = Edit
    THEN (IF veto THEN "onBeforeModeChange(Edit)=true" ELSE "onBeforeModeChange(Edit)=false")
    ELSE (IF veto THEN "onBeforeModeChange(View)=true" ELSE "onBeforeModeChange(View)=false")
AfterCall(m) ==
    IF m = Edit THEN "onAfterModeChange(Edit)" ELSE "onAfterModeChange(View)"

\* _setInitialReactContent: the markup handed to React, or undefined.
SetInitialReactContent(vs) ==
    LET hasContent == vs.content # Null /\ Len(vs.content) > 0
    IN  IF hasContent THEN vs.content ELSE Undefined

\* originalContent of _updateViewState.
OriginalContent(ic) == IF ic # Undefined THEN ic ELSE Null

\* _updateViewState without its test that the content changed.
UpdateViewState_AlwaysRecompute(vs, content, isInitializing, ic) ==
    [content |-> content,
     isDirty |-> IF ~isInitializing
                 THEN content # OriginalContent(ic)
                 ELSE vs.isDirty]

\* _updateViewState without its isInitializing test.
UpdateViewState_IgnoresInitializing(vs, content, isInitializing, ic) ==
    IF vs.content # content
    THEN [content |-> content, isDirty |-> content # OriginalContent(ic)]
    ELSE vs

\* _updateViewState, the default updater.
UpdateViewState(vs, content, isInitializing, ic) ==
    IF vs.content # content
    THEN [content |-> content,
          isDirty |-> IF ~isInitializing
                      THEN content # OriginalContent(ic)
                      ELSE vs.isDirty]
    ELSE vs

\* _updateContentToViewState: the updater (the given one, whose effect on the
\* view state is the caller's: `given`; else the default) is invoked only when
\* an engine is held.
UpdateContentToViewState(s, isInitializing, given) ==
    IF s.editor # NoEditor
    THEN [Step(s, "updateViewState") EXCEPT !.viewState =
            IF props.updateViewState
            THEN given
            ELSE UpdateViewState(s.viewState, s.editorContent, isInitializing,
                                 s.initialContent)]
    ELSE s

SurfaceInit ==
    /\ props \in [readonly : BOOLEAN, activateRoosterOnMount : BOOLEAN,
                  updateViewState : BOOLEAN, plugin : BOOLEAN]
    /\ viewState \in ViewStates
    /\ phase = "constructed"
    /\ mode = View
    /\ editor = NoEditor
    /\ editorContent = <<>>
    /\ hasFocus = FALSE
    /\ nConstructed = 0
    /\ nDisposed = 0
    /\ undoSnapshots = 0
    /\ initialContent = SetInitialReactContent(viewState)
    /\ op = "constructor"
    /\ ret = "none"
    /\ trace = <<>>
    /\ threw = FALSE
    /\ plugin = NoEditor


\* The constructor of the engine refuses its container and throws.
Rejected == <<"rejected">>

\* new Editor(this._contentDiv, this._editorOptions): the engine adopts the
\* markup the content-editable div holds at that moment (`fresh`) and
\* initializes the plugins of its options with itself; the Command Bar's
\* plugin is one of them when props.plugins holds it.  A constructor that
\* refuses the container throws, and nothing is constructed or assigned.
NewEditor(s, fresh) ==
    IF fresh = Rejected
    THEN [Step(s, "new Editor") EXCEPT !.threw = TRUE]
    ELSE [Step(s, "new Editor") EXCEPT !.editor = s.nConstructed + 1,
                                       !.nConstructed = s.nConstructed + 1,
                                       !.editorContent = fresh,
                                       !.plugin = IF props.plugin
                                                  THEN s.nConstructed + 1
                                                  ELSE @]

\* The first test of _trySwithToEditMode without its mode test.
EditSwitchRefused_ReadonlyOnly(s) == props.readonly

\* The first test of _trySwithToEditMode without its readonly test.
EditSwitchRefused_ModeOnly(s) == s.mode = Edit

\* The first test of _trySwithToEditMode.
EditSwitchRefused(s) == s.mode = Edit \/ props.readonly

\* isInitializing with the test inverted.
IsInitializing_Inverted(s) == s.editor # NoEditor

\* isInitializing decided by the mode instead of the held engine.
IsInitializing_ByMode(s) == s.mode = View

\* const isInitializing = !this._editor
IsInitializing(s) == s.editor = NoEditor

\* _trySwithToEditMode notifying onAfterModeChange before it pushes the content.
SwitchToEdit_NotifyFirst(s, fresh, given) ==
    LET isInitializing == s.editor = NoEditor
        s1 == IF isInitializing THEN NewEditor(s, fresh) ELSE s
        s2 == [Step(s1, "mode=Edit") EXCEPT !.mode = Edit]
        s3 == Step(s2, AfterCall(Edit))
        s4 == UpdateContentToViewState(s3, isInitializing, given)
        s5 == Step(s4, "forceUpdate")
    IN  IF s1.threw THEN s1 ELSE [s5 EXCEPT !.ret = "true"]

\* _trySwithToEditMode past its veto: construct on first activation, flip the
\* mode, push the content, re-render, notify; an error thrown by the
\* constructor ends the handler there.
SwitchToEdit(s, fresh, given) ==
    LET isInitializing == IsInitializing(s)
        s1 == IF isInitializing THEN NewEditor(s, fresh) ELSE s
        s2 == [Step(s1, "mode=Edit") EXCEPT !.mode = Edit]
        s3 == UpdateContentToViewState(s2, isInitializing, given)
        s4 == Step(s3, "forceUpdate")
        s5 == Step(s4, AfterCall(Edit))
    IN  IF s1.threw THEN s1 ELSE [s5 EXCEPT !.ret = "true"]

\* _trySwithToEditMode; `veto` is what onBeforeModeChange(Edit) returns.
TrySwithToEditMode(s, veto, fresh, given) ==
    IF EditSwitchRefused(s)
    THEN [s EXCEPT !.ret = "false"]
    ELSE LET s1 == Step(s, BeforeCall(Edit, veto))
         IN  IF veto
             THEN [s1 EXCEPT !.ret = "undefined"]
             ELSE SwitchToEdit(s1, fresh, given)

\* _trySwitchToViewMode flipping the mode before it flushes.
SwitchToView_FlipFirst(s, given) ==
    LET s1 == [Step(s, "mode=View") EXCEPT !.mode = View]
        s2 == UpdateContentToViewState(s1, FALSE, given)
        s3 == Step(s2, "forceUpdate")
        s4 == Step(s3, AfterCall(View))
    IN  [s4 EXCEPT !.ret = "true"]

\* _trySwitchToViewMode past its veto: flush, flip the mode, re-render, notify.
SwitchToView(s, given) ==
    LET s1 == UpdateContentToViewState(s, FALSE, given)
        s2 == [Step(s1, "mode=View") EXCEPT !.mode = View]
        s3 == Step(s2, "forceUpdate")
        s4 == Step(s3, AfterCall(View))
    IN  [s4 EXCEPT !.ret = "true"]

\* _trySwitchToViewMode ignoring what onBeforeModeChange(View) returns.
TrySwitchToViewMode_IgnoresVeto(s, veto, given) ==
    IF s.mode = View
    THEN [s EXCEPT !.ret = "false"]
    ELSE SwitchToView(Step(s, BeforeCall(View, veto)), given)

\* _trySwitchToViewMode; `veto` is what onBeforeModeChange(View) returns.
TrySwitchToViewMode(s, veto, given) ==
    IF s.mode = View
    THEN [s EXCEPT !.ret = "false"]
    ELSE LET s1 == Step(s, BeforeCall(View, veto))
         IN  IF veto
             THEN [s1 EXCEPT !.ret = "false"]
             ELSE SwitchToView(s1, given)

\* focus(): delegates to the engine if one is held.
FocusEditor(s) ==
    IF s.editor # NoEditor
    THEN [Step(s, "editor.focus") EXCEPT !.hasFocus = TRUE]
    ELSE s

\* _onFocus delegating focus whenever an engine is held.
OnFocusBody_AlwaysDelegates(s, veto, fresh, given) ==
    LET s1 == TrySwithToEditMode(s, veto, fresh, given)
    IN  IF s1.threw THEN s1 ELSE Step(FocusEditor(s1), "onFocus")

\* The body of _onFocus after the focus event has reached the div.
OnFocusBody(s, veto, fresh, given) ==
    LET s1 == TrySwithToEditMode(s, veto, fresh, given)
        s2 == IF s1.ret = "true"
              THEN [Step(s1, "editor.focus") EXCEPT !.hasFocus = TRUE]
              ELSE s1
    IN  IF s1.threw THEN s1 ELSE Step(s2, "onFocus")

\* componentWillUnmount disposing the engine before it flushes.
UnmountBody_DisposeFirst(s, given) ==
    IF s.editor # NoEditor
    THEN LET s1 == [Step(s, "editor.dispose") EXCEPT !.nDisposed = s.nDisposed + 1]
             s2 == UpdateContentToViewState(s1, FALSE, given)
         IN  [Step(s2, "editor=null") EXCEPT !.editor = NoEditor]
    ELSE s

\* The body of componentWillUnmount.
UnmountBody(s, given) ==
    LET s1 == UpdateContentToViewState(s, FALSE, given)
    IN  IF s1.editor # NoEditor
        THEN [Step(Step(s1, "editor.dispose"), "editor=null")
                EXCEPT !.nDisposed = s1.nDisposed + 1, !.editor = NoEditor]
        ELSE s1

\* editor.setContent(content): null markup empties the div.
SetContent(content) == IF content = Null THEN <<>> ELSE content

\* reloadContent choosing its path by the mode instead of the held engine.
ReloadBody_ByMode(s) ==
    IF s.mode = Edit
    THEN LET s1 == [Step(s, "editor.setContent") EXCEPT
                        !.editorContent = SetContent(s.viewState.content)]
             s2 == [Step(s1, "undo.clear") EXCEPT !.undoSnapshots = 0]
         IN  [Step(s2, "editor.addUndoSnapshot") EXCEPT
                        !.undoSnapshots = s2.undoSnapshots + 1]
    ELSE LET s1 == [Step(s, "setInitialReactContent") EXCEPT
                        !.initialContent = SetInitialReactContent(s.viewState)]
         IN  Step(s1, "forceUpdate")

\* The body of reloadContent.
ReloadBody(s) ==
    IF s.editor # NoEditor
    THEN LET s1 == [Step(s, "editor.setContent") EXCEPT
                        !.editorContent = SetContent(s.viewState.content)]
             s2 == [Step(s1, "undo.clear") EXCEPT !.undoSnapshots = 0]
         IN  [Step(s2, "editor.addUndoSnapshot") EXCEPT
                        !.undoSnapshots = s2.undoSnapshots + 1]
    ELSE LET s1 == [Step(s, "setInitialReactContent") EXCEPT
                        !.initialContent = SetInitialReactContent(s.viewState)]
         IN  Step(s1, "forceUpdate")


\* Most undo snapshots the engine takes between two reloads.
MaxUndo == 2

\* What the given updateViewState may leave in the view state; the default
\* updater takes no input.
Given == IF props.updateViewState THEN ViewStates ELSE {viewState}

\* this._contentDiv is the div from the mount (React sets the ref before
\* componentDidMount) to the unmount, after which it is null.
HasContentDiv == phase # "unmounted"

\* What a newly constructed engine may find in the div; a retained engine
\* keeps its content.  With no div the constructor is handed null, which the
\* engine refuses ("contentDiv must be an HTML DIV element").
Fresh ==
    IF editor # NoEditor THEN {editorContent}
    ELSE IF HasContentDiv THEN Markup
    ELSE {Rejected}

Mounted == phase = "mounted"

\* The parent holds the component through its ref: from the mount on, and
\* still after the unmount (the public members do not test for it).
RefHeld == phase \in {"mounted", "unmounted"}

\* Whether the plugin keeps its reference when its engine is disposed.
Keeps == IF plugin # NoEditor THEN BOOLEAN ELSE {FALSE}

\* The test of componentDidMount without its activateRoosterOnMount part.
ActivatesOnMount_IgnoresFlag == ~props.readonly

\* The test of componentDidMount.
ActivatesOnMount == ~props.readonly /\ props.activateRoosterOnMount

\* componentDidMount
ComponentDidMount ==
    /\ phase = "constructed"
    /\ phase' = "mounted"
    /\ \E veto \in BOOLEAN, fresh \in Fresh, given \in Given :
          Commit(IF ActivatesOnMount
                 THEN TrySwithToEditMode(Cur, veto, fresh, given)
                 ELSE Cur,
                 "componentDidMount")

\* The plugin's dispose(), which the engine calls when it is disposed: the
\* plugin releases its reference to the engine, or keeps it (`keep`).
PluginDispose(s, keep) ==
    IF s.nDisposed # nDisposed /\ ~keep THEN [s EXCEPT !.plugin = NoEditor] ELSE s

\* componentWillUnmount
ComponentWillUnmount ==
    /\ Mounted
    /\ phase' = "unmounted"
    /\ \E given \in Given, keep \in Keeps :
          Commit(PluginDispose(UnmountBody(Cur, given), keep),
                 "componentWillUnmount")

\* set mode(LeanRoosterModes.Edit)
SetModeEdit ==
    /\ RefHeld
    /\ \E veto \in BOOLEAN, fresh \in Fresh, given \in Given :
          Commit(TrySwithToEditMode(Cur, veto, fresh, given), "setMode(Edit)")
    /\ UNCHANGED phase

\* set mode(LeanRoosterModes.View)
SetModeView ==
    /\ RefHeld
    /\ \E veto \in BOOLEAN, given \in Given :
          Commit(TrySwitchToViewMode(Cur, veto, given), "setMode(View)")
    /\ UNCHANGED phase

\* _onMouseDown
OnMouseDown ==
    /\ Mounted
    /\ \E veto \in BOOLEAN, fresh \in Fresh, given \in Given :
          Commit(TrySwithToEditMode(Cur, veto, fresh, given), "onMouseDown")
    /\ UNCHANGED phase

\* _onMouseUp
OnMouseUp ==
    /\ Mounted
    /\ Commit(IF editor # NoEditor /\ ~hasFocus
              THEN [Step(Cur, "editor.focus") EXCEPT !.hasFocus = TRUE]
              ELSE Cur,
              "onMouseUp")
    /\ UNCHANGED phase

\* _onBlur: focus has left the div.
OnBlur ==
    /\ Mounted
    /\ \E given \in Given :
          Commit(Step(UpdateContentToViewState([Cur EXCEPT !.hasFocus = FALSE],
                                               FALSE, given),
                      "onBlur"),
                 "onBlur")
    /\ UNCHANGED phase

\* _onFocus: focus has reached the div.
OnFocus ==
    /\ Mounted
    /\ \E veto \in BOOLEAN, fresh \in Fresh, given \in Given :
          Commit(OnFocusBody([Cur EXCEPT !.hasFocus = TRUE], veto, fresh, given),
                 "onFocus")
    /\ UNCHANGED phase

\* focus()
Focus ==
    /\ RefHeld
    /\ Commit(FocusEditor(Cur), "focus")
    /\ UNCHANGED phase

\* reloadContent()
ReloadContent ==
    /\ RefHeld
    /\ Commit(ReloadBody(Cur), "reloadContent")
    /\ UNCHANGED phase

\* The user edits the markup through the engine, which may take an undo
\* snapshot of it.
UserEdit ==
    /\ Mounted
    /\ editor # NoEditor
    /\ \E c \in Markup, snap \in BOOLEAN :
          /\ snap => undoSnapshots < MaxUndo
          /\ Commit([Cur EXCEPT !.editorContent = c,
                                !.undoSnapshots = IF snap THEN @ + 1 ELSE @],
                    "edit")
    /\ UNCHANGED phase

\* The parent writes the view state it owns (new content to reload, or a
\* reset of isDirty).
ParentSetsViewState ==
    /\ RefHeld
    /\ \E vs \in ViewStates :
          /\ vs # viewState
          /\ Commit([Cur EXCEPT !.viewState = vs], "parentSetsViewState")
    /\ UNCHANGED phase

(***************************************************************************)
(* RoosterCommandBar                                                       *)
(***************************************************************************)
\* Ticks of the clock in the debounce delay of 100 ms.
DelayTicks == 2

\* Longest visibleButtonKeys list a caller passes.
MaxKeys == 3

\* No debounce timeout is set (timeoutId === null).
NoTimer == -1

\* createFormatState()
CreateFormatState == [k \in FormatKeys |-> "false"]

\* The registry OutOfBoxCommandBarItems, by key, and the keys a caller may name.
Registry == <<"bold", "italic", "photo">>
KeyUniverse == {Registry[i] : i \in 1..Len(Registry)} \cup {"unknown", "constructor"}
KeyLists == UNION {[1..n -> KeyUniverse] : n \in 0..MaxKeys}

\* OutOfBoxCommandBarItemMap[key], a lookup in a plain object keyed by the
\* items' keys: the item of that key, a member every object inherits (for the
\* key "constructor"), or undefined.
ItemMap(key) ==
    IF \E i \in 1..Len(Registry) : Registry[i] = key THEN key
    ELSE IF key = "constructor" THEN "Object"
    ELSE "undefined"

\* Whether the registry's item has a handleChange.
HasHandleChange(key) == key \in {"bold", "italic"}

\* _initButtonKeys
InitButtonKeys(bp) ==
    IF bp.visibleButtonKeys # Undefined
    THEN bp.visibleButtonKeys
    ELSE [i \in 1..Len(Registry) |-> Registry[i]]

\* _getMenuItem: null for no item, else a copy of the item enriched, named
\* here by its key; the copy of a value that is no item has no key.
GetMenuItem(commandBarItem) ==
    IF commandBarItem = "undefined" THEN "null"
    ELSE IF commandBarItem = "Object" THEN "undefined"
    ELSE commandBarItem

IsMenuItem(menuItem) == menuItem # "null"

\* _createItems
CreateItems(keys) ==
    SelectSeq([i \in 1..Len(keys) |-> GetMenuItem(ItemMap(keys[i]))], IsMenuItem)

\* The Command Bar's fields and the objects it acts on, threaded through the
\* statements of a handler.
BarCur == [formatState |-> formatState, asyncLive |-> asyncLive, timer |-> timer,
           sinceCall |-> sinceCall, fileValue |-> fileValue,
           editorContent |-> editorContent, undoSnapshots |-> undoSnapshots,
           outstanding |-> outstanding, reqParity |-> reqParity,
           polled |-> NullState, misuse |-> FALSE, trace |-> <<>>]

BarCommit(s, name) ==
    /\ formatState' = s.formatState
    /\ asyncLive' = s.asyncLive
    /\ timer' = s.timer
    /\ sinceCall' = s.sinceCall
    /\ fileValue' = s.fileValue
    /\ outstanding' = s.outstanding
    /\ reqParity' = s.reqParity
    /\ polled' = s.polled
    /\ misuse' = s.misuse
    /\ barTrace' = s.trace
    /\ barOp' = name
    /\ editorContent' = s.editorContent
    /\ undoSnapshots' = s.undoSnapshots
    /\ UNCHANGED <<props, phase, mode, editor, hasFocus, nConstructed, nDisposed,
                   viewState, initialContent, op, ret, trace, threw>>
    /\ UNCHANGED <<plugin, barProps, buttonKeys, items>>

\* The engine e is present and not disposed (the surface holds at most one
\* engine, so the engines disposed are those numbered up to nDisposed).
Live(e) == e # NoEditor /\ e > nDisposed

\* A method of engine e is invoked.
UseEngine(s, e, what) ==
    [Step(s, what) EXCEPT !.misuse = @ \/ ~Live(e)]

\* object[key]: an absent key reads as undefined.
Read(value) == IF value = "absent" THEN "undefined" ELSE value

\* _isFormatStateChanged: for-in over the keys the held state has.
IsFormatStateChanged(held, newState) ==
    \E key \in FormatKeys :
        held[key] # "absent" /\ Read(held[key]) # Read(newState[key])

\* _updateFormatState; `got` is what getFormatState returns.
UpdateFormatState(s, got) ==
    LET s0 == Step(s, "updateFormatState")
        e == plugin
    IN  IF e # NoEditor
        THEN LET s1 == [UseEngine(s0, e, "getFormatState") EXCEPT !.polled = got]
             IN  IF got # NullState /\ IsFormatStateChanged(s1.formatState, got)
                 THEN [Step(s1, "setState") EXCEPT !.formatState = got]
                 ELSE s1
        ELSE s0

\* A call of this._updateFormatStateDebounced, made by Async.debounce with a
\* wait of 100 ms, no leading edge and no maximal wait: it notes the time of
\* the call and sets the timeout unless one is set; a disposed Async sets none.
DebouncedCall(s) ==
    LET s0 == [Step(s, "updateFormatStateDebounced") EXCEPT !.sinceCall = 0]
    IN  IF s.timer = NoTimer /\ s.asyncLive
        THEN [s0 EXCEPT !.timer = DelayTicks]
        ELSE s0

\* The timeout of the debounced function is due: it runs _updateFormatState if
\* the wait has passed since the last call, else waits for the rest.
TimerCallback(s, got) ==
    IF s.sinceCall >= DelayTicks
    THEN UpdateFormatState([s EXCEPT !.timer = NoTimer, !.outstanding = FALSE], got)
    ELSE [s EXCEPT !.timer = DelayTicks - s.sinceCall]

\* refreshFormatState calling _updateFormatState directly.
RefreshBody_Direct(s, got) == UpdateFormatState(s, got)

\* The body of refreshFormatState.
RefreshBody(s, got) == DebouncedCall(s)

\* _onCommandBarItemClick refreshing through the debounced function.
ItemClickBody_Debounced(s, key, got) ==
    LET e == plugin
        s1 == IF e # NoEditor /\ HasHandleChange(key)
              THEN UseEngine(s, e, "handleChange")
              ELSE s
        s2 == IF key = "photo" THEN Step(s1, "fileInput.click") ELSE s1
    IN  DebouncedCall(s2)

\* The body of _onCommandBarItemClick for the item of `key`.
ItemClickBody(s, key, got) ==
    LET e == plugin
        s1 == IF e # NoEditor /\ HasHandleChange(key)
              THEN UseEngine(s, e, "handleChange")
              ELSE s
        s2 == IF key = "photo" THEN Step(s1, "fileInput.click") ELSE s1
    IN  UpdateFormatState(s2, got)

\* The upload path of _fileInputOnChange: the placeholder is inserted into
\* the engine's content and the undo service takes a snapshot.
UploadPath(s, e) ==
    LET s1 == Step(s, "imageManager.upload")
        s2 == [UseEngine(s1, e, "editor.insertNode") EXCEPT
                  !.editorContent = Append(@, "x")]
        s3 == UseEngine(s2, e, "editor.triggerContentChangedEvent")
    IN  [UseEngine(s3, e, "editor.addUndoSnapshot") EXCEPT
            !.undoSnapshots = @ + 1]

\* _fileInputOnChange clearing the input's value before it inserts.
FileInputBody_ClearFirst(s, hasFile) ==
    LET s0 == Step([s EXCEPT !.fileValue = hasFile],
                   IF hasFile THEN "files[0]=file" ELSE "files[0]=undefined")
        e == plugin
    IN  IF e # NoEditor /\ Live(e) /\ hasFile
        THEN LET s1 == [Step(s0, "fileInput.value=''") EXCEPT !.fileValue = FALSE]
             IN  IF barProps.imageManager
                 THEN UploadPath(s1, e)
                 ELSE UseEngine(s1, e, "insertImage")
        ELSE s0

\* The body of _fileInputOnChange; the input holds the file selected, if any.
FileInputBody(s, hasFile) ==
    LET s0 == Step([s EXCEPT !.fileValue = hasFile],
                   IF hasFile THEN "files[0]=file" ELSE "files[0]=undefined")
        e == plugin
    IN  IF e # NoEditor /\ Live(e) /\ hasFile
        THEN LET s1 == IF barProps.imageManager
                       THEN UploadPath(s0, e)
                       ELSE UseEngine(s0, e, "insertImage")
             IN  [Step(s1, "fileInput.value=''") EXCEPT !.fileValue = FALSE]
        ELSE s0

\* componentWillUnmount of the Command Bar without the disposal of its Async.
BarUnmountBody_NoDispose(s) == Step(s, "unregisterRoosterCommandBar")

\* The body of componentWillUnmount of the Command Bar; Async.dispose clears
\* the timeouts that are set.
BarUnmountBody(s) ==
    LET s0 == Step(s, "unregisterRoosterCommandBar")
    IN  IF s0.asyncLive
        THEN [Step(Step(s0, "async.dispose"), "async=null")
                EXCEPT !.timer = NoTimer, !.asyncLive = FALSE]
        ELSE s0

\* No Command Bar takes part.
BarIdle ==
    /\ barProps = [imageManager |-> FALSE, visibleButtonKeys |-> Undefined]
    /\ barPhase = "none"
    /\ formatState = CreateFormatState
    /\ buttonKeys = <<>>
    /\ items = <<>>
    /\ asyncLive = FALSE
    /\ timer = NoTimer
    /\ sinceCall = 0
    /\ fileValue = FALSE
    /\ polled = NullState
    /\ misuse = FALSE
    /\ outstanding = FALSE
    /\ reqParity = FALSE
    /\ barOp = "none"
    /\ barTrace = <<>>

\* The Command Bar after its constructor and first render.
BarConstructed ==
    /\ barPhase = "constructed"
    /\ formatState = CreateFormatState
    /\ buttonKeys = InitButtonKeys(barProps)
    /\ items = CreateItems(buttonKeys)
    /\ asyncLive = TRUE
    /\ timer = NoTimer
    /\ sinceCall = DelayTicks
    /\ fileValue = FALSE
    /\ polled = NullState
    /\ misuse = FALSE
    /\ outstanding = FALSE
    /\ reqParity = FALSE
    /\ barOp = "constructor"
    /\ barTrace = <<>>

BarMounted == barPhase = "mounted"

\* componentDidMount of the Command Bar
BarComponentDidMount ==
    /\ barPhase = "constructed"
    /\ barPhase' = "mounted"
    /\ BarCommit(Step(BarCur, "registerRoosterCommandBar"), "componentDidMount")

\* componentWillUnmount of the Command Bar
BarComponentWillUnmount ==
    /\ BarMounted
    /\ barPhase' = "unmounted"
    /\ BarCommit(BarUnmountBody(BarCur), "componentWillUnmount")

\* refreshFormatState(), which the plugin or any holder of the bar may call
RefreshFormatState ==
    /\ barPhase \in {"mounted", "unmounted"}
    /\ \E got \in FormatStates \cup {NullState} :
          BarCommit([RefreshBody(BarCur, got) EXCEPT
                        !.outstanding = @ \/ BarMounted,
                        !.reqParity = ~@],
                    "refreshFormatState")
    /\ UNCHANGED barPhase

\* A tick of the clock; a timeout that is due runs first.
Tick ==
    /\ barPhase # "none"
    /\ timer # 0
    /\ BarCommit([BarCur EXCEPT
                    !.sinceCall = IF @ < DelayTicks THEN @ + 1 ELSE @,
                    !.timer = IF @ > 0 THEN @ - 1 ELSE @],
                 "tick")
    /\ UNCHANGED barPhase

\* The debounce timeout fires.
TimerFires ==
    /\ timer = 0
    /\ \E got \in FormatStates \cup {NullState} :
          BarCommit(TimerCallback(BarCur, got), "timer")
    /\ UNCHANGED barPhase

\* A click on a rendered item.
OnCommandBarItemClick ==
    /\ BarMounted
    /\ \E i \in 1..Len(items), got \in FormatStates \cup {NullState} :
          BarCommit(ItemClickBody(BarCur, items[i], got), "onCommandBarItemClick")
    /\ UNCHANGED barPhase

\* A change event of the hidden file input.
FileInputOnChange ==
    /\ BarMounted
    /\ \E hasFile \in BOOLEAN :
          /\ (hasFile /\ Live(plugin) /\ barProps.imageManager)
                => (Len(editorContent) < MaxLen /\ undoSnapshots < MaxUndo)
          /\ BarCommit(FileInputBody(BarCur, hasFile), "fileInputOnChange")
    /\ UNCHANGED barPhase

\* componentWillUpdate with the next props, and the render that follows.
BarComponentWillUpdate ==
    /\ barPhase \in {"constructed", "mounted"}
    /\ \E keys \in KeyLists \cup {Undefined} :
          /\ barProps' = [barProps EXCEPT !.visibleButtonKeys = keys]
          /\ buttonKeys' = InitButtonKeys(barProps')
          /\ items' = CreateItems(buttonKeys')
    /\ barOp' = "componentWillUpdate"
    /\ barTrace' = <<"initButtonKeys", "render">>
    /\ polled' = NullState
    /\ misuse' = FALSE
    /\ UNCHANGED <<surfaceVars, plugin, barPhase, formatState, asyncLive, timer,
                   sinceCall, fileValue, outstanding, reqParity>>

\* The surface alone: no Command Bar, and no plugin of it among props.plugins.
Init == SurfaceInit /\ ~props.plugin /\ BarIdle

\* The surface whose engine the Command Bar works on: editable, not activated
\* on mount, with the default updater and no content.
BarSurface ==
    /\ props = [readonly |-> FALSE, activateRoosterOnMount |-> FALSE,
                updateViewState |-> FALSE, plugin |-> TRUE]
    /\ viewState = [content |-> <<>>, isDirty |-> FALSE]

BarInit ==
    /\ SurfaceInit
    /\ BarSurface
    /\ barProps \in [imageManager : BOOLEAN, visibleButtonKeys : {Undefined}]
    /\ BarConstructed

\* The Command Bar's handlers of the user's input, over a surface that comes
\* to hold an engine and is unmounted.
BarNext ==
    \/ BarComponentDidMount
    \/ BarComponentWillUnmount
    \/ OnCommandBarItemClick
    \/ FileInputOnChange
    \/ ComponentDidMount
    \/ OnMouseDown
    \/ ComponentWillUnmount

BarSpec == BarInit /\ [][BarNext]_vars

\* The Command Bar's debounced refresh: the bar's life, the requests, the
\* clock and the timeout, over a surface that may come to hold an engine.
DebounceInit ==
    /\ SurfaceInit
    /\ BarSurface
    /\ barProps = [imageManager |-> FALSE, visibleButtonKeys |-> Undefined]
    /\ BarConstructed

DebounceNext ==
    \/ BarComponentDidMount
    \/ BarComponentWillUnmount
    \/ RefreshFormatState
    \/ Tick
    \/ TimerFires
    \/ ComponentDidMount
    \/ OnMouseDown

\* Time passes and a timeout that is due fires.
DebounceSpec ==
    DebounceInit /\ [][DebounceNext]_vars /\ WF_vars(Tick) /\ WF_vars(TimerFires)

\* The debounced refresh together with the clicks on the items.
RefreshNext ==
    \/ DebounceNext
    \/ OnCommandBarItemClick

RefreshSpec == DebounceInit /\ [][RefreshNext]_vars

ItemsInit ==
    /\ SurfaceInit
    /\ BarSurface
    /\ barProps \in [imageManager : {FALSE},
                     visibleButtonKeys : KeyLists \cup {Undefined}]
    /\ BarConstructed

ItemsSpec == ItemsInit /\ [][BarComponentWillUpdate]_vars

Next ==
    \/ ComponentDidMount
    \/ ComponentWillUnmount
    \/ SetModeEdit
    \/ SetModeView
    \/ OnMouseDown
    \/ OnMouseUp
    \/ OnBlur
    \/ OnFocus
    \/ Focus
    \/ ReloadContent
    \/ UserEdit
    \/ ParentSetsViewState

Spec == Init /\ [][Next]_vars

TypeOK ==
    /\ phase \in {"constructed", "mounted", "unmounted"}
    /\ mode \in {View, Edit}
    /\ editor \in 0..nConstructed
    /\ editorContent \in Markup
    /\ viewState \in ViewStates
    /\ initialContent \in Markup \cup {Undefined}
    /\ ret \in {"none", "true", "false", "undefined"}
    /\ threw \in BOOLEAN


(***************************************************************************)
(* Reading a trace.                                                        *)
(***************************************************************************)
Has(t, x) == \E i \in 1..Len(t) : t[i] = x
Count(t, x) == Cardinality({i \in 1..Len(t) : t[i] = x})
Pos(t, x) == IF Has(t, x)
             THEN CHOOSE i \in 1..Len(t) : t[i] = x /\ \A j \in 1..(i - 1) : t[j] # x
             ELSE 0
\* x and y each happen exactly once, x before y.
OnceInOrder(t, x, y) == Count(t, x) = 1 /\ Count(t, y) = 1 /\ Pos(t, x) < Pos(t, y)

Vetoed(t) == Has(t, BeforeCall(Edit, TRUE)) \/ Has(t, BeforeCall(View, TRUE))
Consulted(t, m) == Count(t, BeforeCall(m, TRUE)) + Count(t, BeforeCall(m, FALSE))
NoModeCallback(t) ==
    \A m \in {Edit, View} : Consulted(t, m) = 0 /\ ~Has(t, AfterCall(m))

\* The handlers that attempt a switch to Edit.
EditAttempts == {"componentDidMount", "setMode(Edit)", "onMouseDown", "onFocus"}

\* Engine instances constructed and not disposed.
Undisposed == nConstructed - nDisposed

(***************************************************************************)
(* C1                                                                      *)
(***************************************************************************)
\* C1 as stated: in every reachable state the mode is Edit if and only if the
\* surface holds an engine instance.
C1_ModeEditIffEngine == (mode = Edit) <=> (editor # NoEditor)

\* C1 amended: until unmount, mode Edit implies that an engine is held (the
\* converse fails: a switch to View keeps the engine); the unmount releases
\* the engine and leaves the mode, so Edit without an engine is what an
\* unmount in Edit mode leaves.
C1_EditModeHoldsEngine ==
    /\ []((phase # "unmounted" /\ mode = Edit) => editor # NoEditor)
    /\ [][op' = "componentWillUnmount" => editor' = NoEditor /\ mode' = mode]_vars
    /\ [][(mode' = Edit /\ editor' = NoEditor)
            => (op' = "componentWillUnmount" \/ (mode = Edit /\ editor = NoEditor))]_vars

\* An engine retained in View mode is taken up again by the next switch to Edit.
C1_Witness ==
    /\ Mounted /\ mode = Edit /\ editor # NoEditor
    /\ op = "onMouseDown" /\ ret = "true" /\ ~Has(trace, "new Editor")

(***************************************************************************)
(* C2                                                                      *)
(***************************************************************************)
\* C2: at most one undisposed engine instance exists at any time; an engine is
\* constructed only when none is held; after a successful switch to Edit
\* exactly one exists, and no later attempt constructs a second one.
C2_AtMostOneEngine ==
    /\ [](/\ Undisposed <= 1
          /\ editor # NoEditor => (editor = nConstructed /\ Undisposed = 1)
          /\ (op \in EditAttempts /\ ret = "true") => Undisposed = 1
          /\ Count(trace, "new Editor") <= 1)
    /\ [][nConstructed' # nConstructed
            => /\ editor = NoEditor /\ Undisposed = 0
               /\ nConstructed' = nConstructed + 1]_vars
    /\ [][(op' \in EditAttempts /\ editor # NoEditor)
            => (nConstructed' = nConstructed /\ editor' = editor)]_vars

\* Edit was entered again, after a switch to View, with the one engine.
C2_Witness ==
    /\ op = "setMode(Edit)" /\ ret = "true" /\ ~Has(trace, "new Editor")
    /\ nConstructed = 1 /\ Undisposed = 1

(***************************************************************************)
(* C3                                                                      *)
(***************************************************************************)
\* The markup the surface was first rendered with (empty when the view state
\* had no content).
InitialMarkup == IF initialContent = Undefined THEN <<>> ELSE initialContent

\* C3 as stated: after every blur on a surface that holds an engine, with the
\* default updater, view-state content equals the engine content and isDirty
\* is true iff that content differs from the original initial markup.
C3_BlurDirtyIffDiffers ==
    (op = "onBlur" /\ editor # NoEditor /\ ~props.updateViewState) =>
        /\ viewState.content = editorContent
        /\ viewState.isDirty <=> (editorContent # InitialMarkup)

\* C3 amended: after such a blur view-state content equals the engine content;
\* isDirty is recomputed only when the blur changed the view-state content, and
\* is then true iff the new content differs from the original initial markup
\* (null when that was empty or absent); otherwise isDirty keeps its value.
C3_BlurFlush ==
    [][(op' = "onBlur" /\ editor # NoEditor /\ ~props.updateViewState) =>
        /\ viewState'.content = editorContent
        /\ editorContent' = editorContent
        /\ IF viewState.content # editorContent
           THEN viewState'.isDirty = (editorContent # OriginalContent(initialContent))
           ELSE viewState'.isDirty = viewState.isDirty]_vars

\* A blur after the first activation adopted markup other than the initial one:
\* the content is in the view state and isDirty is still false.
C3_Witness ==
    /\ op = "onBlur" /\ editor # NoEditor /\ ~props.updateViewState
    /\ Has(trace, "updateViewState")
    /\ viewState.content = editorContent
    /\ initialContent # Undefined /\ editorContent # initialContent
    /\ ~viewState.isDirty

(***************************************************************************)
(* C4                                                                      *)
(***************************************************************************)
\* C4: when onBeforeModeChange returns true the switch does not occur: mode,
\* engine and view state are unchanged, nothing is constructed,
\* onAfterModeChange is not invoked and the switch does not return true.
C4_VetoPreventsSwitch ==
    [][Vetoed(trace') =>
        /\ mode' = mode /\ editor' = editor /\ nConstructed' = nConstructed
        /\ editorContent' = editorContent
        /\ viewState' = viewState
        /\ ~Has(trace', AfterCall(Edit)) /\ ~Has(trace', AfterCall(View))
        /\ ~Has(trace', "updateViewState")
        /\ ret' # "true"]_vars

\* A switch to View was vetoed while the engine held unflushed content.
C4_Witness ==
    /\ op = "setMode(View)" /\ Has(trace, BeforeCall(View, TRUE))
    /\ mode = Edit /\ ret = "false"
    /\ ~props.updateViewState /\ viewState.content # editorContent

(***************************************************************************)
(* C5                                                                      *)
(***************************************************************************)
\* C5: an attempt to switch to Edit while the mode is Edit returns false,
\* invokes no mode-change callback, constructs nothing and leaves mode and view
\* state as they were.
C5_EditInEditIsNoOp ==
    [][(op' \in EditAttempts /\ mode = Edit) =>
        /\ ret' = "false"
        /\ NoModeCallback(trace')
        /\ ~Has(trace', "new Editor") /\ nConstructed' = nConstructed
        /\ editor' = editor
        /\ mode' = Edit
        /\ viewState' = viewState]_vars

\* A pointer-down in Edit mode, with content the view state does not have yet.
C5_Witness ==
    /\ op = "onMouseDown" /\ mode = Edit /\ ret = "false" /\ trace = <<>>
    /\ viewState.content # editorContent

(***************************************************************************)
(* C6                                                                      *)
(***************************************************************************)
\* C6: on a read-only surface every attempt to switch to Edit returns false,
\* and in every reachable state the mode is View, no engine was constructed,
\* no mode-change callback was invoked and the view state is untouched.
C6_ReadonlyNeverEdits ==
    /\ [](props.readonly =>
            /\ mode = View /\ editor = NoEditor /\ nConstructed = 0
            /\ ret \in {"none", "false"}
            /\ (op \in EditAttempts \ {"componentDidMount"} => ret = "false")
            /\ NoModeCallback(trace)
            /\ ~Has(trace, "updateViewState"))
    /\ [][(props.readonly /\ op' # "parentSetsViewState")
            => viewState' = viewState]_vars

\* A focus event on a mounted read-only surface.
C6_Witness ==
    /\ props.readonly /\ props.activateRoosterOnMount /\ Mounted
    /\ op = "onFocus" /\ ret = "false" /\ trace = <<"onFocus">>


(***************************************************************************)
(* C7                                                                      *)
(***************************************************************************)
\* C7: a successful switch to Edit consults onBeforeModeChange(Edit),
\* constructs the engine (only when none is held), sets the mode, pushes the
\* engine content to the view state and invokes onAfterModeChange(Edit), in
\* this order and each once; an attempt returns true exactly when it changed
\* the mode from View to Edit.
C7_SwitchToEditOrder ==
    [][op' \in EditAttempts =>
        /\ (ret' = "true") <=> (mode = View /\ mode' = Edit)
        /\ ret' = "true" =>
            /\ Consulted(trace', Edit) = 1
            /\ OnceInOrder(trace', BeforeCall(Edit, FALSE), "mode=Edit")
            /\ OnceInOrder(trace', "mode=Edit", "updateViewState")
            /\ OnceInOrder(trace', "updateViewState", AfterCall(Edit))
            /\ Count(trace', "new Editor") = (IF editor = NoEditor THEN 1 ELSE 0)
            /\ Has(trace', "new Editor") =>
                  /\ Pos(trace', BeforeCall(Edit, FALSE)) < Pos(trace', "new Editor")
                  /\ Pos(trace', "new Editor") < Pos(trace', "mode=Edit")
            /\ editor' # NoEditor]_vars

\* The first activation: a pointer-down that constructed the engine.
C7_Witness ==
    /\ op = "onMouseDown" /\ ret = "true" /\ mode = Edit
    /\ Has(trace, "new Editor") /\ Has(trace, "updateViewState")

(***************************************************************************)
(* C8                                                                      *)
(***************************************************************************)
\* C8 as stated (its last clause): immediately after a successful switch to
\* View the view-state content equals the engine content.
C8_ViewContentIsEngineContent ==
    (op = "setMode(View)" /\ ret = "true") => viewState.content = editorContent

\* C8 amended: a switch to View in View mode is a no-op returning false;
\* otherwise, unless vetoed, the view-state updater is invoked with the engine
\* content (if an engine is held) before the mode becomes View and
\* onAfterModeChange(View) after it; with the default updater the view-state
\* content then equals the engine content.  With no engine held (Edit mode on
\* an unmounted surface) nothing is flushed and the view state stays.
C8_SwitchToViewOrder ==
    [][op' = "setMode(View)" =>
        /\ mode = View =>
            /\ ret' = "false" /\ trace' = <<>>
            /\ mode' = View /\ editor' = editor /\ viewState' = viewState
        /\ (mode = Edit /\ ~Vetoed(trace')) =>
            /\ ret' = "true" /\ mode' = View
            /\ Consulted(trace', View) = 1
            /\ OnceInOrder(trace', "mode=View", AfterCall(View))
            /\ editor' = editor /\ editorContent' = editorContent
            /\ IF editor # NoEditor
               THEN /\ OnceInOrder(trace', "updateViewState", "mode=View")
                    /\ ~props.updateViewState => viewState'.content = editorContent
               ELSE /\ ~Has(trace', "updateViewState")
                    /\ viewState' = viewState]_vars

\* A switch to View whose flush brought edited content to the view state.
C8_Witness ==
    /\ op = "setMode(View)" /\ ret = "true" /\ mode = View
    /\ ~props.updateViewState
    /\ viewState.content = editorContent /\ viewState.isDirty
    /\ editor # NoEditor

(***************************************************************************)
(* C9                                                                      *)
(***************************************************************************)
\* C9: on unmount with an engine held, the content is flushed first, then the
\* engine is disposed once and the reference released; after unmount no engine
\* is held; an unmount without an engine changes nothing.
C9_UnmountFlushesThenDisposes ==
    /\ [](phase = "unmounted" => (editor = NoEditor /\ Undisposed = 0))
    /\ [][op' = "componentWillUnmount" =>
            IF editor # NoEditor
            THEN /\ OnceInOrder(trace', "updateViewState", "editor.dispose")
                 /\ OnceInOrder(trace', "editor.dispose", "editor=null")
                 /\ nDisposed' = nDisposed + 1
                 /\ editor' = NoEditor
                 /\ ~props.updateViewState => viewState'.content = editorContent
            ELSE /\ trace' = <<>>
                 /\ mode' = mode /\ viewState' = viewState
                 /\ editor' = editor
                 /\ nDisposed' = nDisposed /\ nConstructed' = nConstructed]_vars

\* An unmount in Edit mode that flushed edited content and disposed the engine.
C9_Witness ==
    /\ phase = "unmounted" /\ op = "componentWillUnmount"
    /\ nDisposed = 1 /\ mode = Edit /\ editor = NoEditor
    /\ Has(trace, "editor.dispose")
    /\ ~props.updateViewState /\ viewState.isDirty

(***************************************************************************)
(* C10                                                                     *)
(***************************************************************************)
\* C10 as stated: on every focus event focus is delegated to the engine
\* whenever one is held, also when the surface was already in Edit mode, and
\* onFocus is invoked afterwards.
C10_FocusAlwaysDelegated ==
    op = "onFocus" =>
        /\ editor # NoEditor => Has(trace, "editor.focus")
        /\ trace # <<>> /\ trace[Len(trace)] = "onFocus"

\* C10 amended: on every focus event an edit-mode switch is attempted; focus is
\* delegated to the engine exactly when that attempt returned true (the mode
\* went from View to Edit in this event), after onAfterModeChange(Edit); the
\* onFocus callback is invoked once, last, in every case.
C10_FocusDelegatedOnSwitch ==
    op = "onFocus" =>
        /\ Has(trace, "editor.focus") <=> ret = "true"
        /\ Count(trace, "editor.focus") <= 1
        /\ ret = "true" => OnceInOrder(trace, AfterCall(Edit), "editor.focus")
        /\ Count(trace, "onFocus") = 1
        /\ trace[Len(trace)] = "onFocus"
        /\ ret \in {"true", "false", "undefined"}

\* A focus event in Edit mode: the engine is held and is not given the focus.
C10_Witness ==
    /\ op = "onFocus" /\ mode = Edit /\ editor # NoEditor
    /\ ret = "false" /\ trace = <<"onFocus">>


(***************************************************************************)
(* C11                                                                     *)
(***************************************************************************)
\* C11: no engine exists until a switch to Edit succeeds; on mount an engine is
\* constructed only if the surface is not read-only, activate-on-mount is set
\* and the switch is not vetoed; otherwise the first construction happens in
\* the first pointer-down, focus event or mode-setter call that switches to
\* Edit.  A construction can fail only where the surface has no div (after
\* unmount); the error leaves the surface as it was.
C11_LazyConstruction ==
    /\ [](phase = "constructed" => (editor = NoEditor /\ nConstructed = 0))
    /\ [](op = "componentDidMount" =>
            ((editor # NoEditor) <=>
                (~props.readonly /\ props.activateRoosterOnMount /\ ~Vetoed(trace))))
    /\ [][nConstructed' # nConstructed =>
            /\ nConstructed' = nConstructed + 1
            /\ editor = NoEditor /\ editor' # NoEditor
            /\ op' \in EditAttempts /\ ret' = "true"
            /\ mode = View /\ mode' = Edit
            /\ ~props.readonly]_vars
    /\ [][(op' \in EditAttempts /\ ret' = "true" /\ editor = NoEditor) =>
            nConstructed' = nConstructed + 1]_vars
    /\ [][threw' =>
            /\ phase = "unmounted" /\ op' = "setMode(Edit)" /\ ret' = "none"
            /\ editor = NoEditor /\ editor' = NoEditor
            /\ nConstructed' = nConstructed
            /\ mode' = mode /\ viewState' = viewState
            /\ ~Has(trace', AfterCall(Edit))]_vars

\* Mounted without activation; the first pointer-down constructed the engine.
C11_Witness ==
    /\ ~props.activateRoosterOnMount /\ ~props.readonly
    /\ op = "onMouseDown" /\ ret = "true" /\ Has(trace, "new Editor")
    /\ nConstructed = 1

(***************************************************************************)
(* C12                                                                     *)
(***************************************************************************)
\* C12: reloadContent chooses its path by engine presence, not by mode: with
\* an engine, the engine content is replaced by the view-state content, then
\* the undo history is cleared, then one undo snapshot is added; with none, the
\* static markup is re-derived from the view state and re-rendered.  Mode,
\* held engine and view state are unchanged in both cases.
C12_ReloadContent ==
    [][op' = "reloadContent" =>
        /\ mode' = mode /\ editor' = editor /\ viewState' = viewState
        /\ nConstructed' = nConstructed /\ nDisposed' = nDisposed
        /\ IF editor # NoEditor
           THEN /\ trace' = <<"editor.setContent", "undo.clear",
                              "editor.addUndoSnapshot">>
                /\ editorContent' = SetContent(viewState.content)
                /\ undoSnapshots' = 1
                /\ initialContent' = initialContent
           ELSE /\ trace' = <<"setInitialReactContent", "forceUpdate">>
                /\ initialContent' = SetInitialReactContent(viewState)
                /\ editorContent' = editorContent
                /\ undoSnapshots' = undoSnapshots]_vars

\* A reload in View mode with the retained engine: the edited content and the
\* undo history were replaced.
C12_Witness ==
    /\ op = "reloadContent" /\ mode = View /\ editor # NoEditor
    /\ Has(trace, "undo.clear") /\ undoSnapshots = 1
    /\ viewState.content # Null /\ editorContent = viewState.content

(***************************************************************************)
(* C20                                                                     *)
(***************************************************************************)
\* C20: with the default updater, the flush of the first activation never
\* changes isDirty, whatever the new engine reports; only later flushes (blur,
\* switch to View, unmount, re-entering Edit with the retained engine) can
\* change it; a flush whose engine content equals the view-state content
\* leaves content and isDirty unchanged.
C20_FirstFlushKeepsDirty ==
    [][~props.updateViewState =>
        /\ (Has(trace', "new Editor") /\ ~threw') =>
              /\ Has(trace', "updateViewState")
              /\ viewState'.isDirty = viewState.isDirty
              /\ viewState'.content = editorContent'
        /\ (Has(trace', "updateViewState") /\ editorContent' = viewState.content) =>
              viewState' = viewState
        /\ (viewState'.isDirty # viewState.isDirty /\ op' # "parentSetsViewState") =>
              /\ Has(trace', "updateViewState")
              /\ editor # NoEditor
              /\ \/ op' \in {"onBlur", "setMode(View)", "componentWillUnmount"}
                 \/ op' \in EditAttempts /\ ret' = "true"]_vars

\* A first activation whose engine reported markup other than the initial one:
\* the content is in the view state, isDirty is still false.
C20_Witness ==
    /\ ~props.updateViewState /\ Has(trace, "new Editor")
    /\ Has(trace, "updateViewState")
    /\ initialContent # Undefined /\ editorContent # initialContent
    /\ viewState.content = editorContent /\ ~viewState.isDirty

(***************************************************************************)
(* Claims about the Command Bar.                                           *)
(***************************************************************************)
\* The step is one of the Command Bar.
BarStep == barOp' # "none"

\* No key has different values in the two mappings.
KeyWiseEqual(a, b) == \A key \in FormatKeys : Read(a[key]) = Read(b[key])

\* C13: a poll that returns a format state updates the held state exactly when
\* the polled state and the held one are not key-wise equal.
C13_UpdateIffNotKeyWiseEqual ==
    [][BarStep /\ Has(barTrace', "getFormatState") /\ polled' # NullState
         => (Has(barTrace', "setState") <=> ~KeyWiseEqual(formatState, polled'))]_vars

BarPolled(t) ==
    Has(t, "updateFormatState") \/ Has(t, "getFormatState") \/ Has(t, "setState")

\* C15: once the Command Bar is unmounted no debounce timeout is set, so a
\* refresh that was pending never runs: nothing after the unmount polls the
\* format state or calls setState, and a refresh request after the unmount
\* changes nothing (it sets no timeout and polls nothing).
C15_NoRefreshAfterUnmount ==
    /\ [](barPhase = "unmounted"
            => timer = NoTimer /\ ~asyncLive /\ barOp # "timer" /\ ~BarPolled(barTrace))
    /\ [][barPhase = "unmounted" /\ BarStep
            => formatState' = formatState /\ timer' = NoTimer /\ polled' = NullState]_vars

\* The bar was unmounted while a refresh was pending, and a refresh request
\* arrived after the unmount.
C15_Witness ==
    /\ barPhase = "unmounted"
    /\ outstanding
    /\ barOp = "refreshFormatState"
    /\ plugin # NoEditor

\* The steps of the upload path, each once and in this order.
UploadedInOrder(t) ==
    /\ OnceInOrder(t, "imageManager.upload", "editor.insertNode")
    /\ OnceInOrder(t, "editor.insertNode", "editor.triggerContentChangedEvent")
    /\ OnceInOrder(t, "editor.triggerContentChangedEvent", "editor.addUndoSnapshot")
    /\ ~Has(t, "insertImage")

InsertedDirectly(t) ==
    /\ Count(t, "insertImage") = 1
    /\ ~Has(t, "imageManager.upload")
    /\ ~Has(t, "editor.insertNode")

\* The input's value was cleared, after everything else.
ClearedLast(t) ==
    /\ Count(t, "fileInput.value=''") = 1
    /\ t[Len(t)] = "fileInput.value=''"

\* C16 as stated: every selection of a file takes the path the configuration
\* names, once, and the input's value is cleared afterwards.
C16_EverySelectionInserts ==
    [][BarStep /\ barOp' = "fileInputOnChange" /\ Has(barTrace', "files[0]=file")
         => /\ IF barProps.imageManager
               THEN UploadedInOrder(barTrace')
               ELSE InsertedDirectly(barTrace')
            /\ ClearedLast(barTrace')
            /\ ~fileValue']_vars

\* C16: a selection of a file while the plugin's engine is present and not
\* disposed takes the path the configuration names, once (upload, insertNode,
\* content-changed event and undo snapshot in this order with an image
\* manager, which puts the placeholder into the engine's content and one
\* snapshot more into the undo service; the direct insert without), and the
\* input's value is cleared afterwards; with the engine absent or disposed, or with no file, nothing is
\* invoked and the input's value is not cleared.
C16_SelectionInsertsWhenEngineLive ==
    [][BarStep /\ barOp' = "fileInputOnChange"
         => IF Live(plugin) /\ Has(barTrace', "files[0]=file")
            THEN /\ IF barProps.imageManager
                    THEN UploadedInOrder(barTrace')
                    ELSE InsertedDirectly(barTrace')
                 /\ ClearedLast(barTrace')
                 /\ ~fileValue'
                 /\ ~misuse'
                 /\ IF barProps.imageManager
                    THEN /\ undoSnapshots' = undoSnapshots + 1
                         /\ editorContent' = Append(editorContent, "x")
                    ELSE UNCHANGED <<undoSnapshots, editorContent>>
            ELSE /\ Len(barTrace') = 1
                 /\ fileValue' = Has(barTrace', "files[0]=file")
                 /\ UNCHANGED <<undoSnapshots, editorContent>>]_vars

\* A file was selected with an image manager and a live engine.
C16_Witness ==
    /\ barOp = "fileInputOnChange"
    /\ barProps.imageManager
    /\ Has(barTrace, "editor.addUndoSnapshot")
    /\ ~fileValue

\* The keys the bar shows: the caller's, or the registry's.
KeysShown ==
    IF barProps.visibleButtonKeys = Undefined
    THEN Registry
    ELSE barProps.visibleButtonKeys

\* The positions of keys the registry knows.
KnownAt(keys) ==
    {j \in 1..Len(keys) : \E r \in 1..Len(Registry) : Registry[r] = keys[j]}

\* C17: the rendered list has one item per occurrence of a key the registry
\* knows, in the order of the keys (the caller's, or the registry's when none
\* are supplied), and nothing for an unknown key.
C17_ItemsAreKnownKeysInOrder ==
    /\ Len(items) = Cardinality(KnownAt(KeysShown))
    /\ \A j \in KnownAt(KeysShown) :
          items[Cardinality({m \in KnownAt(KeysShown) : m <= j})] = KeysShown[j]

\* C18: no method of an engine is invoked on an absent or disposed engine, by
\* the surface (which holds no disposed engine) or by the Command Bar.
C18_EngineUsedOnlyWhenLive ==
    /\ ~misuse
    /\ editor # NoEditor => Live(editor)

\* C19 as stated, its liveness: a request made while mounted is eventually
\* followed by the poll unless the bar is unmounted first.
C19_EveryRequestIsPolled ==
    (BarMounted /\ outstanding) ~> (~outstanding \/ barPhase = "unmounted")

\* C19: refreshFormatState polls nothing itself; the timeout polls only when
\* the delay has passed since the last request, and that one poll ends the
\* burst (no timeout stays set, no request stays unanswered); a timeout is set
\* only for an unanswered request.  A request made while mounted is eventually
\* followed by the poll unless the bar is unmounted or another request
\* arrives first.
C19_BurstPolledOnceAfterQuiescence ==
    /\ [](barOp = "refreshFormatState" => ~BarPolled(barTrace))
    /\ [](barOp = "timer" /\ BarPolled(barTrace)
            => /\ sinceCall = DelayTicks
               /\ timer = NoTimer
               /\ ~outstanding
               /\ Count(barTrace, "updateFormatState") = 1)
    /\ [](timer # NoTimer => outstanding)
    /\ [](BarMounted /\ outstanding => timer # NoTimer)
    /\ \A b \in BOOLEAN :
          (BarMounted /\ outstanding /\ reqParity = b)
             ~> (~outstanding \/ barPhase = "unmounted" \/ reqParity # b)

\* The timeout polled after a burst whose requests it had outlived once.
C19_Witness ==
    /\ barOp = "timer"
    /\ BarPolled(barTrace)
    /\ Has(barTrace, "setState")
    /\ BarMounted

====
